---- MODULE Spec2Model ----
(***************************************************************************)
(* Model of rottentomatoes.py: the RT client class, the module-level       *)
(* API_KEY resolution, and the fetch / gunzip / JSON-decode helper.        *)
(*                                                                         *)
(* Python values are modelled as follows.                                  *)
(*   - str values are TLA+ strings; None is the reserved string None.      *)
(*   - a response body is a sequence of byte codes (Integers).             *)
(*   - a decoded JSON value is a record [t, n, s, keys, items]; t is the   *)
(*     Python type the decoder produces (dict, list, int, unicode, None).  *)
(*   - an outcome of a call is [err, val]: err is "" on a normal return    *)
(*     and the name of the Python exception otherwise.                     *)
(***************************************************************************)
EXTENDS Integers, Sequences, FiniteSets, TLC

VARIABLES
    secretModule,   \* rottentomatoes_api_key.API_KEY, or ImportErr when the module is missing
    envKey,         \* os.environ.get('RT_KEY'): None when unset
    API_KEY,        \* the module global set at import time
    rt,             \* the RT instance most recently constructed (or the failed attempt)
    lastCall        \* the most recent operation: arguments, requests issued, outcome

vars == <<secretModule, envKey, API_KEY, rt, lastCall>>

(***************************************************************************)
(* Bounds                                                                  *)
(***************************************************************************)
MaxLen == 1         \* longest "movies" array in a response payload

(***************************************************************************)
(* Python values                                                           *)
(***************************************************************************)
None == "<None>"
ImportErr == "<ImportError>"

\* Python truthiness of a str-or-None value: `if x:`
Truthy(x) == x # None /\ x # ""

JNull == [t |-> "null", n |-> 0, s |-> "", keys |-> <<>>, items |-> <<>>]
JNum(k) == [t |-> "num", n |-> k, s |-> "", keys |-> <<>>, items |-> <<>>]
JStr(x) == [t |-> "str", n |-> 0, s |-> x, keys |-> <<>>, items |-> <<>>]
JArr(xs) == [t |-> "arr", n |-> 0, s |-> "", keys |-> <<>>, items |-> xs]
JObj(ks, xs) == [t |-> "obj", n |-> 0, s |-> "", keys |-> ks, items |-> xs]

Raise(e) == [err |-> e, val |-> JNull]
Return(v) == [err |-> "", val |-> v]

\* dict.update(other): entries of other win
DictUpdate(d, other) ==
    [k \in (DOMAIN d) \cup (DOMAIN other) |->
        IF k \in DOMAIN other THEN other[k] ELSE d[k]]

NoKwargs == [k \in {} |-> ""]

(***************************************************************************)
(* JSON text.  A body is a sequence of byte codes; the structural          *)
(* characters carry their ASCII codes, and each literal the payloads use   *)
(* (a quoted name, null) is one code above the ASCII range.                *)
(***************************************************************************)
Ch(c) ==
    CASE c = "{" -> 123
      [] c = "}" -> 125
      [] c = "[" -> 91
      [] c = "]" -> 93
      [] c = ":" -> 58
      [] c = "," -> 44
      [] c = "5" -> 53
      [] c = "7" -> 55
      [] c = "\"movies\"" -> 200
      [] c = "\"total\"" -> 201
      [] c = "\"links\"" -> 202
      [] c = "null" -> 203

IsDigit(b) == b \in 48..57
IsStrLit(b) == b \in 200..202
StrOf(b) ==
    CASE b = 200 -> "movies"
      [] b = 201 -> "total"
      [] b = 202 -> "links"

\* dict[key] on the decoded dict: a repeated name keeps its last value
RECURSIVE LastIndex(_, _, _)
LastIndex(ks, k, i) ==
    IF i = 0 THEN 0
    ELSE IF ks[i] = k THEN i
    ELSE LastIndex(ks, k, i - 1)

HasKey(v, k) == v.t = "obj" /\ LastIndex(v.keys, k, Len(v.keys)) > 0
ValueAt(v, k) == v.items[LastIndex(v.keys, k, Len(v.keys))]

\* json.loads: recursive descent; each parser returns [ok, v, next]
PFail == [ok |-> FALSE, v |-> JNull, next |-> 0]
POk(v, i) == [ok |-> TRUE, v |-> v, next |-> i]

RECURSIVE ParseValue(_, _)
RECURSIVE ParseItems(_, _, _)
RECURSIVE ParseMembers(_, _, _, _)

ParseValue(b, i) ==
    IF i > Len(b) THEN PFail
    ELSE IF b[i] = Ch("null") THEN POk(JNull, i + 1)
    ELSE IF IsDigit(b[i]) THEN POk(JNum(b[i] - 48), i + 1)
    ELSE IF IsStrLit(b[i]) THEN POk(JStr(StrOf(b[i])), i + 1)
    ELSE IF b[i] = Ch("[") THEN
        IF i + 1 <= Len(b) /\ b[i + 1] = Ch("]")
        THEN POk(JArr(<<>>), i + 2)
        ELSE ParseItems(b, i + 1, <<>>)
    ELSE IF b[i] = Ch("{") THEN
        IF i + 1 <= Len(b) /\ b[i + 1] = Ch("}")
        THEN POk(JObj(<<>>, <<>>), i + 2)
        ELSE ParseMembers(b, i + 1, <<>>, <<>>)
    ELSE PFail

ParseItems(b, i, acc) ==
    LET r == ParseValue(b, i) IN
    IF ~r.ok \/ r.next > Len(b) THEN PFail
    ELSE IF b[r.next] = Ch(",") THEN ParseItems(b, r.next + 1, Append(acc, r.v))
    ELSE IF b[r.next] = Ch("]") THEN POk(JArr(Append(acc, r.v)), r.next + 1)
    ELSE PFail

ParseMembers(b, i, ks, xs) ==
    IF i + 1 > Len(b) \/ ~IsStrLit(b[i]) \/ b[i + 1] # Ch(":") THEN PFail
    ELSE
        LET r == ParseValue(b, i + 2) IN
        IF ~r.ok \/ r.next > Len(b) THEN PFail
        ELSE IF b[r.next] = Ch(",")
            THEN ParseMembers(b, r.next + 1, Append(ks, StrOf(b[i])), Append(xs, r.v))
        ELSE IF b[r.next] = Ch("}")
            THEN POk(JObj(Append(ks, StrOf(b[i])), Append(xs, r.v)), r.next + 1)
        ELSE PFail

\* json.loads(response): ValueError unless the whole text is one JSON value
JsonLoads(b) ==
    LET r == ParseValue(b, 1) IN
    IF r.ok /\ r.next = Len(b) + 1 THEN Return(r.v) ELSE Raise("ValueError")

(***************************************************************************)
(* zlib.decompress(response, 16 + zlib.MAX_WBITS): the gzip container.     *)
(* Frame: magic 31 139, the deflate stream, then the CRC and the length    *)
(* of the original.  The deflate stream is modelled as one literal         *)
(* symbol per byte followed by an end-of-block symbol.                     *)
(***************************************************************************)
RECURSIVE ByteSum(_, _)
ByteSum(b, i) == IF i = 0 THEN 0 ELSE (b[i] + ByteSum(b, i - 1)) % 256

Crc(b) == ByteSum(b, Len(b))
Lit(x) == 1000 + x
EndOfBlock == <<999>>
GzipMagic == <<31, 139>>

\* [ok, out]: ok = FALSE stands for zlib.error
ZlibDecompress(b) ==
    LET n == Len(b) - 5
        out == [i \in 1..n |-> b[i + 2] - 1000]
    IN  IF /\ n >= 0
           /\ SubSeq(b, 1, 2) = GzipMagic
           /\ \A i \in 1..n : b[i + 2] >= 1000
           /\ <<b[n + 3]>> = EndOfBlock
           /\ b[n + 4] = Crc(out)
           /\ b[n + 5] = n
        THEN [ok |-> TRUE, out |-> out]
        ELSE [ok |-> FALSE, out |-> <<>>]

(***************************************************************************)
(* RT._load_json_from_url.  resp is what urlopen(url).read() gives: the    *)
(* body, or a transport failure raised by urlopen.                         *)
(***************************************************************************)
TransportError == [kind |-> "error", body |-> <<>>]
Body(b) == [kind |-> "ok", body |-> b]

\* _load_json_from_url without the decompression attempt
LoadWithoutGunzip(resp) ==
    IF resp.kind = "error" THEN Raise("URLError") ELSE JsonLoads(resp.body)

_load_json_from_url(resp) ==
    IF resp.kind = "error" THEN Raise("URLError")
    ELSE
        LET z == ZlibDecompress(resp.body)
            response == IF z.ok THEN z.out ELSE resp.body
        IN  JsonLoads(response)

(***************************************************************************)
(* What the remote service can send back.  JsonDumps writes a payload as   *)
(* JSON text and GzipCompress frames a text as a gzip stream; they stand   *)
(* for the server side of urlopen(url).read().                             *)
(***************************************************************************)
RECURSIVE JsonDumps(_)
RECURSIVE DumpItems(_, _)
RECURSIVE DumpMembers(_, _, _)

StrLit(x) ==
    CASE x = "movies" -> Ch("\"movies\"")
      [] x = "total" -> Ch("\"total\"")
      [] x = "links" -> Ch("\"links\"")

JsonDumps(v) ==
    CASE v.t = "null" -> <<Ch("null")>>
      [] v.t = "num" -> <<48 + v.n>>
      [] v.t = "str" -> <<StrLit(v.s)>>
      [] v.t = "arr" -> <<Ch("[")>> \o DumpItems(v.items, 1) \o <<Ch("]")>>
      [] v.t = "obj" -> <<Ch("{")>> \o DumpMembers(v.keys, v.items, 1) \o <<Ch("}")>>

DumpItems(xs, i) ==
    IF i > Len(xs) THEN <<>>
    ELSE (IF i > 1 THEN <<Ch(",")>> ELSE <<>>) \o JsonDumps(xs[i]) \o DumpItems(xs, i + 1)

DumpMembers(ks, xs, i) ==
    IF i > Len(ks) THEN <<>>
    ELSE (IF i > 1 THEN <<Ch(",")>> ELSE <<>>)
         \o <<StrLit(ks[i]), Ch(":")>> \o JsonDumps(xs[i]) \o DumpMembers(ks, xs, i + 1)

GzipCompress(b) ==
    GzipMagic \o [i \in 1..Len(b) |-> Lit(b[i])] \o EndOfBlock \o <<Crc(b), Len(b)>>

MovieArrays == {JArr([i \in 1..n |-> JNum(7)]) : n \in 0..MaxLen}

Docs ==
    {JObj(<<"total", "movies">>, <<JNum(5), a>>) : a \in MovieArrays}
    \cup {JObj(<<"links">>, <<JObj(<<"movies", "total">>, <<JStr("links"), JNull>>)>>),
          JArr(<<>>)}

PlainBodies == {JsonDumps(d) : d \in Docs}
GzipBodies == {GzipCompress(b) : b \in PlainBodies}

\* a gzip stream cut before its trailer, and a JSON text cut short
BrokenBodies ==
    {SubSeq(GzipCompress(JsonDumps(JArr(<<>>))), 1, 5),
     <<Ch("{"), Ch("\"movies\""), Ch(":"), Ch("[")>>}

Responses ==
    {TransportError} \cup {Body(b) : b \in PlainBodies \cup GzipBodies \cup BrokenBodies}

NoResponse == [kind |-> "none", body |-> <<>>]

\* _load_json_from_url on each response the service can send, computed once
Fetched == [resp \in Responses |-> _load_json_from_url(resp)]

(***************************************************************************)
(* Module import: API_KEY                                                  *)
(***************************************************************************)
\* the import with the environment variable consulted first
ImportApiKeyEnvFirst(secret, env) ==
    IF env # None THEN env ELSE secret

ImportApiKey(secret, env) ==
    IF secret # ImportErr THEN secret ELSE env

(***************************************************************************)
(* class RT.  Every method is an operator from self and its arguments to   *)
(* [self, requests, err, val]: the instance after the call, the requests   *)
(* it issued, and its outcome.  Absent marks an argument the caller left   *)
(* out, so that the default of the signature applies.                      *)
(***************************************************************************)
Absent == "<absent>"
Default(x, d) == IF x = Absent THEN d ELSE x

NoRT ==
    [state |-> "none", api_key |-> None, version |-> "", BASE_URL |-> "",
     lists_url |-> "", movie_url |-> ""]

\* a version argument is [t, s]: its Python type and its text; 1.0 is the default
FloatVersion == [t |-> "float", s |-> "1.0"]
AbsentVersion == [t |-> "absent", s |-> ""]

__init__(api_key_arg, version_arg, module_API_KEY) ==
    LET api_key == Default(api_key_arg, "")
        v == IF version_arg.t = "absent" THEN FloatVersion ELSE version_arg
        key == IF ~Truthy(api_key) THEN module_API_KEY ELSE api_key
        version == v.s     \* str(version) for a float; a str is kept as it is
        BASE_URL == "http://api.rottentomatoes.com/api/public/v" \o version \o "/"
    IN  IF key = None
        THEN [NoRT EXCEPT !.state = "failed"]
        ELSE [state |-> "ok", api_key |-> key, version |-> version,
              BASE_URL |-> BASE_URL,
              lists_url |-> BASE_URL \o "lists",
              movie_url |-> BASE_URL \o "movies"]

\* urllib.urlencode(kwargs): the name=value pairs; their order is the dict's
urlencode(kw) == {<<k, kw[k]>> : k \in DOMAIN kw}

Request(url, kw) == [url |-> url, query |-> urlencode(kw)]

Outcome(self, requests, r) ==
    [self |-> self, requests |-> requests, err |-> r.err, val |-> r.val]

\* data[key] with key a str
Subscript(data, key) ==
    IF data.t = "obj"
    THEN IF HasKey(data, key) THEN Return(ValueAt(data, key)) ELSE Raise("KeyError")
    ELSE Raise("TypeError")

FirstChar(x) ==
    CASE x = "movies" -> "m"
      [] x = "total" -> "t"
      [] x = "links" -> "l"

\* data[0]
Index0(data) ==
    CASE data.t = "arr" ->
            IF Len(data.items) > 0 THEN Return(data.items[1]) ELSE Raise("IndexError")
      [] data.t = "str" -> Return(JStr(FirstChar(data.s)))
      [] data.t = "obj" -> Raise("KeyError")
      [] OTHER -> Raise("TypeError")

\* out[...] applied to the value a call returned; an exception passes through
Then(out, r) ==
    IF out.err # "" THEN out ELSE Outcome(out.self, out.requests, r)

\* search that always extracts "movies"
SearchIgnoresDatatype(self, query, datatype_arg, kwargs, resp) ==
    LET search_url == self.movie_url \o "?"
        kw == DictUpdate(kwargs, [apikey |-> self.api_key, q |-> query])
        data == Fetched[resp]
        out == Outcome(self, <<Request(search_url, kw)>>, data)
    IN  Then(out, Subscript(data.val, "movies"))

\* search that keeps the merged apikey option on the instance
SearchStoresKey(self, query, datatype_arg, kwargs, resp) ==
    LET datatype == Default(datatype_arg, "movies")
        search_url == self.movie_url \o "?"
        kw == DictUpdate([apikey |-> self.api_key, q |-> query], kwargs)
        data == Fetched[resp]
        out == Outcome([self EXCEPT !.api_key = kw.apikey],
                       <<Request(search_url, [kw EXCEPT !.apikey = self.api_key])>>, data)
    IN  Then(out, Subscript(data.val, datatype))

search(self, query, datatype_arg, kwargs, resp) ==
    LET datatype == Default(datatype_arg, "movies")
        search_url == self.movie_url \o "?"
        kw == DictUpdate(kwargs, [apikey |-> self.api_key, q |-> query])
        data == Fetched[resp]
        out == Outcome(self, <<Request(search_url, kw)>>, data)
    IN  Then(out, Subscript(data.val, datatype))

\* lists that appends sub even when no directory is given
ListsSubAlone(self, directory_arg, sub_arg, kwargs, resp) ==
    LET directory == Default(directory_arg, None)
        sub == Default(sub_arg, None)
        path == (IF Truthy(directory) THEN "/" \o directory ELSE "")
                \o (IF Truthy(sub) THEN "/" \o sub ELSE "")
        kw == DictUpdate(kwargs, [apikey |-> self.api_key])
        lists_url == self.lists_url \o path \o ".json?"
        data == Fetched[resp]
    IN  Outcome(self, <<Request(lists_url, kw)>>, data)

\* lists whose caller options override the instance's key
ListsCallerKeyWins(self, directory_arg, sub_arg, kwargs, resp) ==
    LET directory == Default(directory_arg, None)
        sub == Default(sub_arg, None)
        path == IF Truthy(directory)
                THEN IF Truthy(sub)
                     THEN "/" \o directory \o "/" \o sub
                     ELSE "/" \o directory
                ELSE ""
        kw == DictUpdate([apikey |-> self.api_key], kwargs)
        lists_url == self.lists_url \o path \o ".json?"
        data == Fetched[resp]
    IN  Outcome(self, <<Request(lists_url, kw)>>, data)

lists(self, directory_arg, sub_arg, kwargs, resp) ==
    LET directory == Default(directory_arg, None)
        sub == Default(sub_arg, None)
        path == IF Truthy(directory)
                THEN IF Truthy(sub)
                     THEN "/" \o directory \o "/" \o sub
                     ELSE "/" \o directory
                ELSE ""
        kw == DictUpdate(kwargs, [apikey |-> self.api_key])
        lists_url == self.lists_url \o path \o ".json?"
        data == Fetched[resp]
    IN  Outcome(self, <<Request(lists_url, kw)>>, data)

\* id_num is [t, s]: an int or a str whose text is s
info(self, id_num, specific_info_arg, resp) ==
    LET specific_info == Default(specific_info_arg, None)
        id == id_num.s      \* str(id_num) for an int
        movie_url == self.movie_url \o "/" \o id
                     \o (IF Truthy(specific_info) THEN "/" \o specific_info ELSE "")
                     \o ".json?"
        data == Fetched[resp]
    IN  Outcome(self, <<Request(movie_url, [apikey |-> self.api_key])>>, data)

\* new that treats every unknown kind as "movies"
NewFallsBackToMovies(self, kind_arg, kwargs, resp) ==
    LET kind == Default(kind_arg, "movies")
        m == lists(self, "movies", "opening", kwargs, resp)
        d == lists(self, "dvds", "new_releases", kwargs, resp)
    IN  IF kind = "dvds" THEN Then(d, Subscript(d.val, "movies"))
        ELSE Then(m, Subscript(m.val, "movies"))

new(self, kind_arg, kwargs, resp) ==
    LET kind == Default(kind_arg, "movies")
        m == lists(self, "movies", "opening", kwargs, resp)
        d == lists(self, "dvds", "new_releases", kwargs, resp)
    IN  IF kind = "movies" THEN Then(m, Subscript(m.val, "movies"))
        ELSE IF kind = "dvds" THEN Then(d, Subscript(d.val, "movies"))
        ELSE Outcome(self, <<>>, Return(JNull))

\* movies that does not forward the caller's options
MoviesDropsOptions(self, sub_arg, kwargs, resp) ==
    LET out == lists(self, "movies", Default(sub_arg, "in_theaters"), NoKwargs, resp)
    IN  Then(out, Subscript(out.val, "movies"))

movies(self, sub_arg, kwargs, resp) ==
    LET out == lists(self, "movies", Default(sub_arg, "in_theaters"), kwargs, resp)
    IN  Then(out, Subscript(out.val, "movies"))

dvds(self, sub_arg, kwargs, resp) ==
    LET out == lists(self, "dvds", Default(sub_arg, "new_releases"), kwargs, resp)
    IN  Then(out, Subscript(out.val, "movies"))

\* feeling_lucky that answers None when the search found nothing
FeelingLuckyDefault(self, search_term, resp) ==
    LET out == search(self, search_term, Absent, [page_limit |-> "1"], resp)
    IN  IF out.err = "" /\ out.val.t = "arr" /\ out.val.items = <<>>
        THEN Outcome(out.self, out.requests, Return(JNull))
        ELSE Then(out, Index0(out.val))

feeling_lucky(self, search_term, resp) ==
    LET out == search(self, search_term, Absent, [page_limit |-> "1"], resp)
    IN  Then(out, Index0(out.val))

(***************************************************************************)
(* Inputs                                                                  *)
(***************************************************************************)
SecretValues == {ImportErr, "", "KEYS"}
EnvValues == {None, "", "KEYE"}
ApiKeyArgs == {Absent, "", "KEYA"}
VersionArgs == {AbsentVersion, [t |-> "str", s |-> "1.0"]}
KwargsSet == {NoKwargs, [apikey |-> "EVIL", page_limit |-> "5"]}
Queries == {"lion"}
Datatypes == {Absent, "total"}
Directories == {Absent, "", "dvds"}
Subs == {Absent, "", "new_releases"}
MovieIds == {[t |-> "int", s |-> "13153"], [t |-> "str", s |-> "13153"]}
SpecificInfos == {Absent, "cast"}
Kinds == {Absent, "dvds", "tv"}
MovieSubs == {Absent, "box_office"}
DvdSubs == {Absent, "top_rentals"}

(***************************************************************************)
(* State machine                                                           *)
(***************************************************************************)
Env == <<secretModule, envKey, API_KEY>>

Call(op, a1, a2, kwargs, resp, out) ==
    [op |-> op, a1 |-> a1, a2 |-> a2, kwargs |-> kwargs,
     resp |-> IF out.requests = <<>> THEN NoResponse ELSE resp,
     requests |-> out.requests, err |-> out.err, val |-> out.val]

NoCall ==
    [op |-> "", a1 |-> "", a2 |-> "", kwargs |-> NoKwargs, resp |-> NoResponse,
     requests |-> <<>>, err |-> "", val |-> JNull]

Init ==
    /\ secretModule \in SecretValues
    /\ envKey \in EnvValues
    /\ API_KEY = ImportApiKey(secretModule, envKey)
    /\ rt = NoRT
    /\ lastCall = NoCall

Construct ==
    \E api_key \in ApiKeyArgs, version \in VersionArgs :
        LET self == __init__(api_key, version, API_KEY) IN
        /\ rt' = self
        /\ lastCall' = [NoCall EXCEPT
                !.op = "__init__", !.a1 = api_key,
                !.a2 = version.t,
                !.err = IF self.state = "ok" THEN "" ELSE "AssertionError"]
        /\ UNCHANGED Env

Search ==
    \E query \in Queries, datatype \in Datatypes, kwargs \in KwargsSet, resp \in Responses :
        LET out == search(rt, query, datatype, kwargs, resp) IN
        /\ rt.state = "ok"
        /\ rt' = out.self
        /\ lastCall' = Call("search", query, datatype, kwargs, resp, out)
        /\ UNCHANGED Env

Lists ==
    \E directory \in Directories, sub \in Subs, kwargs \in KwargsSet, resp \in Responses :
        LET out == lists(rt, directory, sub, kwargs, resp) IN
        /\ rt.state = "ok"
        /\ rt' = out.self
        /\ lastCall' = Call("lists", directory, sub, kwargs, resp, out)
        /\ UNCHANGED Env

Info ==
    \E id_num \in MovieIds, specific_info \in SpecificInfos, resp \in Responses :
        LET out == info(rt, id_num, specific_info, resp) IN
        /\ rt.state = "ok"
        /\ rt' = out.self
        /\ lastCall' = Call("info", id_num.t, specific_info, NoKwargs, resp, out)
        /\ UNCHANGED Env

New ==
    \E kind \in Kinds, kwargs \in KwargsSet, resp \in Responses :
        LET out == new(rt, kind, kwargs, resp) IN
        /\ rt.state = "ok"
        /\ rt' = out.self
        /\ lastCall' = Call("new", kind, "", kwargs, resp, out)
        /\ UNCHANGED Env

Movies ==
    \E sub \in MovieSubs, kwargs \in KwargsSet, resp \in Responses :
        LET out == movies(rt, sub, kwargs, resp) IN
        /\ rt.state = "ok"
        /\ rt' = out.self
        /\ lastCall' = Call("movies", sub, "", kwargs, resp, out)
        /\ UNCHANGED Env

Dvds ==
    \E sub \in DvdSubs, kwargs \in KwargsSet, resp \in Responses :
        LET out == dvds(rt, sub, kwargs, resp) IN
        /\ rt.state = "ok"
        /\ rt' = out.self
        /\ lastCall' = Call("dvds", sub, "", kwargs, resp, out)
        /\ UNCHANGED Env

FeelingLucky ==
    \E search_term \in Queries, resp \in Responses :
        LET out == feeling_lucky(rt, search_term, resp) IN
        /\ rt.state = "ok"
        /\ rt' = out.self
        /\ lastCall' = Call("feeling_lucky", search_term, "", NoKwargs, resp, out)
        /\ UNCHANGED Env

Next ==
    \/ Construct
    \/ Search
    \/ Lists
    \/ Info
    \/ New
    \/ Movies
    \/ Dvds
    \/ FeelingLucky

Spec == Init /\ [][Next]_vars

(***************************************************************************)
(* Properties                                                              *)
(***************************************************************************)
\* the two framings of payload d that the service can send
Encodings(d) == {Body(JsonDumps(d)), Body(GzipCompress(JsonDumps(d)))}
Sent(d) == lastCall.resp \in Encodings(d)

\* payload d is a JSON object with a member named key / that member's value
Present(d, key) == d.t = "obj" /\ \E i \in DOMAIN d.keys : d.keys[i] = key
Entry(d, key) == d.items[CHOOSE i \in DOMAIN d.keys : d.keys[i] = key]

Given(x) == x \notin {Absent, None, ""}
ApiKeyArg == Default(lastCall.a1, "")
SecretYieldsKey == secretModule # ImportErr /\ Truthy(secretModule)
MergedQuery == urlencode(DictUpdate(lastCall.kwargs, [apikey |-> rt.api_key]))

\* C1: construction aborts whenever neither the explicit argument nor the
\* fallback (secret module, else RT_KEY) yields a non-empty key, so every
\* constructed client holds a non-empty api_key.
C1_AbortsWithoutKey ==
    /\ lastCall.op = "__init__" =>
        LET fallback == IF secretModule # ImportErr THEN secretModule ELSE envKey
        IN  (~Truthy(ApiKeyArg) /\ ~Truthy(fallback)) => rt.state = "failed"
    /\ rt.state = "ok" => rt.api_key # ""

\* C2: a payload sent plain and the same payload sent gzip-framed decode to
\* the same value; a body that does not decompress is decoded as plain text,
\* and the only failure of the decode step is the JSON decode error.
C2_CompressionTransparent ==
    lastCall.op \in {"lists", "info"} =>
        /\ \A d \in Docs : Sent(d) => lastCall.err = "" /\ lastCall.val = d
        /\ lastCall.resp.kind = "ok" => lastCall.err \in {"", "ValueError"}
        /\ (lastCall.resp.kind = "ok" /\ lastCall.resp.body \in BrokenBodies)
            => lastCall.err = "ValueError"

C2_Witness ==
    /\ lastCall.op = "lists"
    /\ lastCall.resp.kind = "ok"
    /\ lastCall.resp.body \in GzipBodies
    /\ lastCall.err = ""
    /\ lastCall.val.t = "obj"

\* C3 as stated: search returns the payload's value at datatype when the key
\* is present and fails with a lookup error (KeyError) whenever it is absent,
\* for every decoded payload.
C3_SearchLookupAnyPayload ==
    lastCall.op = "search" =>
        \A d \in Docs : Sent(d) =>
            LET datatype == Default(lastCall.a2, "movies") IN
            IF Present(d, datatype)
            THEN lastCall.err = "" /\ lastCall.val = Entry(d, datatype)
            ELSE lastCall.err = "KeyError"

\* C3 amended: for a payload that is a JSON object, search returns the value
\* at datatype when present and fails with KeyError when absent; for a
\* payload that is not an object it fails with TypeError.
C3_SearchLookup ==
    lastCall.op = "search" =>
        \A d \in Docs : Sent(d) =>
            LET datatype == Default(lastCall.a2, "movies") IN
            IF Present(d, datatype)
            THEN lastCall.err = "" /\ lastCall.val = Entry(d, datatype)
            ELSE IF d.t = "obj"
            THEN lastCall.err = "KeyError"
            ELSE lastCall.err = "TypeError"

C3_Witness ==
    /\ lastCall.op = "search"
    /\ lastCall.a2 = "total"
    /\ \E d \in Docs : Sent(d) /\ Present(d, "total")
    /\ lastCall.err = ""
    /\ lastCall.val = JNum(5)

\* C4: lists requests <lists_url>[/directory[/sub]].json, a sub without a
\* directory never appearing in the path, and returns the whole payload.
C4_ListsPath ==
    lastCall.op = "lists" =>
        LET directory == lastCall.a1
            sub == lastCall.a2
            tail == IF Given(directory)
                    THEN "/" \o directory \o (IF Given(sub) THEN "/" \o sub ELSE "")
                    ELSE ""
        IN  /\ rt.lists_url = "http://api.rottentomatoes.com/api/public/v1.0/lists"
            /\ Len(lastCall.requests) = 1
            /\ lastCall.requests[1].url = rt.lists_url \o tail \o ".json?"
            /\ (directory = "dvds" /\ sub = "new_releases") =>
                    lastCall.requests[1].url =
                        "http://api.rottentomatoes.com/api/public/v1.0/lists/dvds/new_releases.json?"
            /\ \A d \in Docs : Sent(d) => lastCall.err = "" /\ lastCall.val = d

C4_Witness ==
    /\ lastCall.op = "lists"
    /\ lastCall.a1 = Absent
    /\ lastCall.a2 = "new_releases"
    /\ lastCall.requests[1].url = "http://api.rottentomatoes.com/api/public/v1.0/lists.json?"
    /\ lastCall.err = ""

C6_FeelingLucky ==
    lastCall.op = "feeling_lucky" =>
        /\ lastCall.requests =
                <<[url |-> rt.movie_url \o "?",
                   query |-> {<<"apikey", rt.api_key>>, <<"q", lastCall.a1>>,
                              <<"page_limit", "1">>}]>>
        /\ \A d \in Docs : (Sent(d) /\ Present(d, "movies")) =>
                LET found == Entry(d, "movies") IN
                found.t = "arr" =>
                    IF Len(found.items) = 0
                    THEN lastCall.err = "IndexError"
                    ELSE lastCall.err = "" /\ lastCall.val = found.items[1]

C6_Witness ==
    /\ lastCall.op = "feeling_lucky"
    /\ \E d \in Docs : Sent(d) /\ Present(d, "movies") /\ Entry(d, "movies").items = <<>>
    /\ lastCall.err = "IndexError"

\* the request lists(directory, sub, options) issues on the client
ListsRequest(directory, sub) ==
    lists(rt, directory, sub, lastCall.kwargs, lastCall.resp).requests

DelegatedSub ==
    IF lastCall.op = "movies"
    THEN Default(lastCall.a1, "in_theaters")
    ELSE Default(lastCall.a1, "new_releases")

\* C7 as stated: movies / dvds issue the request of lists("movies" / "dvds",
\* sub, options) and return the payload's "movies" entry, failing with a
\* lookup error (KeyError) whenever the payload has no "movies" key.
C7_DelegateAnyPayload ==
    lastCall.op \in {"movies", "dvds"} =>
        /\ lastCall.requests = ListsRequest(lastCall.op, DelegatedSub)
        /\ lastCall.requests =
                <<[url |-> rt.lists_url \o "/" \o lastCall.op \o "/" \o DelegatedSub
                            \o ".json?",
                   query |-> MergedQuery]>>
        /\ \A d \in Docs : Sent(d) =>
                IF Present(d, "movies")
                THEN lastCall.err = "" /\ lastCall.val = Entry(d, "movies")
                ELSE lastCall.err = "KeyError"

\* C7 amended: as stated, except that the lookup error (KeyError) is for a
\* payload that is a JSON object without a "movies" key; a payload that is
\* not an object makes the call fail with TypeError.
C7_Delegate ==
    lastCall.op \in {"movies", "dvds"} =>
        /\ lastCall.requests = ListsRequest(lastCall.op, DelegatedSub)
        /\ lastCall.requests =
                <<[url |-> rt.lists_url \o "/" \o lastCall.op \o "/" \o DelegatedSub
                            \o ".json?",
                   query |-> MergedQuery]>>
        /\ \A d \in Docs : Sent(d) =>
                IF Present(d, "movies")
                THEN lastCall.err = "" /\ lastCall.val = Entry(d, "movies")
                ELSE IF d.t = "obj"
                THEN lastCall.err = "KeyError"
                ELSE lastCall.err = "TypeError"

C7_Witness ==
    /\ lastCall.op = "movies"
    /\ lastCall.a1 = "box_office"
    /\ "page_limit" \in DOMAIN lastCall.kwargs
    /\ lastCall.err = ""
    /\ lastCall.val = JArr(<<JNum(7)>>)

\* C8: new returns lists("movies", "opening")["movies"] for kind "movies",
\* lists("dvds", "new_releases")["movies"] for kind "dvds"; for any other
\* kind it issues no request, raises nothing and returns None.
C8_New ==
    lastCall.op = "new" =>
        LET kind == Default(lastCall.a1, "movies") IN
        IF kind \in {"movies", "dvds"}
        THEN /\ lastCall.requests =
                    <<[url |-> rt.lists_url
                                \o (IF kind = "movies" THEN "/movies/opening"
                                    ELSE "/dvds/new_releases")
                                \o ".json?",
                       query |-> MergedQuery]>>
             /\ \A d \in Docs : (Sent(d) /\ Present(d, "movies")) =>
                    lastCall.err = "" /\ lastCall.val = Entry(d, "movies")
        ELSE /\ lastCall.requests = <<>>
             /\ lastCall.err = ""
             /\ lastCall.val = JNull

C8_Witness ==
    /\ lastCall.op = "new"
    /\ lastCall.a1 = "tv"
    /\ lastCall.requests = <<>>
    /\ lastCall.err = ""
    /\ lastCall.val = JNull

\* C9: no call of search, lists, info, new, movies, dvds or feeling_lucky,
\* whether it returns or raises, changes the client's api_key, version,
\* BASE_URL, lists_url or movie_url.
C9_ClientImmutable ==
    [][lastCall'.op # "__init__" => rt' = rt]_vars

C9_Witness ==
    /\ rt.state = "ok"
    /\ lastCall.op = "search"
    /\ "apikey" \in DOMAIN lastCall.kwargs
    /\ lastCall.err = "KeyError"

\* C10: every request carries an apikey parameter whose value is the
\* client's api_key, also when the caller's options hold an apikey entry.
C10_ApiKeySent ==
    rt.state = "ok" =>
        \A i \in DOMAIN lastCall.requests :
            LET query == lastCall.requests[i].query IN
            /\ <<"apikey", rt.api_key>> \in query
            /\ \A p \in query : p[1] = "apikey" => p[2] = rt.api_key

C10_Witness ==
    /\ lastCall.op = "lists"
    /\ Len(lastCall.requests) = 1
    /\ "apikey" \in DOMAIN lastCall.kwargs
    /\ lastCall.kwargs["apikey"] # rt.api_key
    /\ <<"apikey", rt.api_key>> \in lastCall.requests[1].query

====
